---- MODULE Spec2Model ----
(***************************************************************************)
(* Model of the receipt data extractor (receipt_extractor.py) and of the   *)
(* credential utility (manage_api_key.py).                                 *)
(*                                                                         *)
(* Texts are sequences of symbols.  A file name is a sequence of one-      *)
(* character strings.  A service response is a sequence of JSON lexemes:   *)
(*   "{" "}"  the brace characters,                                        *)
(*   "m"      a member, "name": value, of a record (value a scalar),       *)
(*   "1"      a non-zero number literal,                                   *)
(*   "x"      a word of prose (no brace in it, never valid JSON).          *)
(* The .env file of the utility is a sequence of the symbols               *)
(*   "K"      the literal GROQ_API_KEY=,                                   *)
(*   "a"      an ordinary character,                                       *)
(*   " "      a blank,                                                     *)
(*   "\n"     a line break.                                                *)
(***************************************************************************)
EXTENDS Integers, Sequences, FiniteSets, TLC

VARIABLES
    entry,            \* "main": the script is run; "call": extract_receipt_data is called by an importer
    argv,             \* sys.argv[1:] of the run: <<>> or <<path>>
    api_key,          \* the api_key argument of extract_receipt_data
    dotenvInstalled,  \* whether `from dotenv import load_dotenv` succeeds
    dotenvKey,        \* the GROQ_API_KEY entry of the .env file, or None
    environ,          \* os.environ.get("GROQ_API_KEY")
    images,           \* the names of the files of the working directory
    out,              \* the content of every <basename>.json of the working directory
    replies,          \* the texts the service may answer with
    pc,               \* position of the program
    image_files,      \* process_all_receipts: the discovered files
    idx,              \* process_all_receipts: position of the loop in image_files
    successful_count, \* process_all_receipts: successful_count
    cur,              \* the image_path being processed
    response_content, \* extract_receipt_data: response_content of the last call
    extracted_data,   \* the value extract_receipt_data returned last
    client,           \* the api_key the last Groq client was constructed with
    netCalls,         \* number of requests sent to the service
    summary,          \* the "Processing complete" line, once printed
    envText,          \* manage_api_key: the content of .env
    envOrig,          \* manage_api_key: the content of .env before the first command
    lastOp            \* manage_api_key: the last command run

runVars == <<entry, argv, api_key, dotenvInstalled, dotenvKey, environ, images, out,
             replies, pc, image_files, idx, successful_count, cur, response_content,
             extracted_data, client, netCalls, summary>>
keyVars == <<envText, envOrig, lastOp>>
vars == <<runVars, keyVars>>

\* ---------------------------------------------------------------- bounds

MaxFiles == 2
MaxLen == 4
MaxEnvLen == 4
MaxKeyLen == 2

\* ---------------------------------------------------------------- sequences

Last(s) == s[Len(s)]

SeqsUpTo(S, n) == UNION {[1..m -> S] : m \in 0..n}

Min(S) == CHOOSE x \in S : \A y \in S : x <= y
Max(S) == CHOOSE x \in S : \A y \in S : x >= y

\* The orderings of a finite set.
Perms(S) == {q \in [1..Cardinality(S) -> S] : \A i, j \in DOMAIN q : q[i] = q[j] => i = j}

\* ---------------------------------------------------------------- python values

None == "None"

\* Python's truth value of an optional string.
Truthy(v) == v # None /\ v # ""

\* ---------------------------------------------------------------- file names

Lowercase == <<"a","b","c","d","e","f","g","h","i","j","k","l","m",
               "n","o","p","q","r","s","t","u","v","w","x","y","z">>
Uppercase == <<"A","B","C","D","E","F","G","H","I","J","K","L","M",
               "N","O","P","Q","R","S","T","U","V","W","X","Y","Z">>

UpperChar(c) == IF \E i \in DOMAIN Lowercase : Lowercase[i] = c
                THEN Uppercase[CHOOSE i \in DOMAIN Lowercase : Lowercase[i] = c]
                ELSE c
LowerChar(c) == IF \E i \in DOMAIN Uppercase : Uppercase[i] = c
                THEN Lowercase[CHOOSE i \in DOMAIN Uppercase : Uppercase[i] = c]
                ELSE c

\* str.upper and str.lower
Upper(s) == [i \in DOMAIN s |-> UpperChar(s[i])]
Lower(s) == [i \in DOMAIN s |-> LowerChar(s[i])]

\* The extensions of image_extensions, each pattern being "*." followed by one of them.
image_extensions == << <<"j","p","g">>, <<"j","p","e","g">>, <<"p","n","g">>,
                       <<"g","i","f">>, <<"b","m","p">> >>

\* The file names a working directory is drawn from.
NameUniverse == { <<"r",".","j","p","g">>, <<"r",".","J","P","G">>, <<"r",".","J","p","g">>,
                  <<"r",".","p","n","g">>, <<"s",".","j","p","e","g">>,
                  <<"s",".","G","I","F">>, <<"s",".","j","p","g">>, <<"s",".","t","x","t">> }

\* glob's match of a name against the pattern "*." \o ext (case-sensitive; a
\* leading "*" does not match a name that begins with a dot).
GlobMatch(name, ext) ==
    /\ Len(name) >= Len(ext) + 1
    /\ name[1] # "."
    /\ SubSeq(name, Len(name) - Len(ext), Len(name)) = <<".">> \o ext

\* The patterns in the order the loop globs them: ext, ext.upper(), per extension.
GlobPatterns == [n \in 1..(2 * Len(image_extensions)) |->
                   IF n % 2 = 1 THEN image_extensions[(n + 1) \div 2]
                   ELSE Upper(image_extensions[n \div 2])]

GlobHits(dir, n) == {f \in dir : GlobMatch(f, GlobPatterns[n])}

RECURSIVE GlobAll(_, _)
\* The lists image_files can be after the globs from the n-th on: each glob's
\* matches in any order (the order of a directory listing), one glob after another.
GlobAll(dir, n) ==
    IF n > Len(GlobPatterns) THEN {<<>>}
    ELSE {h \o t : h \in Perms(GlobHits(dir, n)), t \in GlobAll(dir, n + 1)}

\* os.path.splitext of a base name: split at the last dot that follows a
\* character other than a dot.
SplitAt(name) ==
    LET dots == {i \in DOMAIN name : name[i] = "." /\ \E j \in 1..(i - 1) : name[j] # "."}
    IN IF dots = {} THEN Len(name) + 1 ELSE Max(dots)

SplitextRoot(name) == SubSeq(name, 1, SplitAt(name) - 1)
SplitextExt(name) == SubSeq(name, SplitAt(name) + 1, Len(name))

get_json_filename(image_path) == SplitextRoot(image_path) \o <<".","j","s","o","n">>

OutNames == {get_json_filename(n) : n \in NameUniverse}

\* ---------------------------------------------------------------- JSON

Alphabet == {"{", "}", "m", "1", "x"}

Num == [t |-> "num"]
EmptyObj == [t |-> "obj", n |-> 0]
Obj == [t |-> "obj", n |-> 1]
NoValue == [t |-> "none"]

ParseFail == [ok |-> FALSE, v |-> NoValue, next |-> 0]

Is(s, i, c) == i <= Len(s) /\ s[i] = c

\* The JSON decoder reading one value of s from position i.  Over the lexemes
\* of a response the values are  "1",  "{" "}"  and  "{" "m" "}".
ParseValue(s, i) ==
    IF Is(s, i, "1") THEN [ok |-> TRUE, v |-> Num, next |-> i + 1]
    ELSE IF Is(s, i, "{") /\ Is(s, i + 1, "}")
         THEN [ok |-> TRUE, v |-> EmptyObj, next |-> i + 2]
    ELSE IF Is(s, i, "{") /\ Is(s, i + 1, "m") /\ Is(s, i + 2, "}")
         THEN [ok |-> TRUE, v |-> Obj, next |-> i + 3]
    ELSE ParseFail

\* json.loads: the value of the whole text, or JSONDecodeError (ok = FALSE) when no
\* value is read or text follows it.
json_loads(s) ==
    LET r == ParseValue(s, 1)
    IN IF r.ok /\ r.next = Len(s) + 1 THEN r ELSE ParseFail

\* Python's truth value of a decoded value, None included.
TruthyData(v) == v # NoValue /\ v # EmptyObj

\* The search with a lazy star: the shortest match from the leftmost "{".
re_search_lazy(s) ==
    LET starts == {i \in DOMAIN s : s[i] = "{" /\ \E j \in (i + 1)..Len(s) : s[j] = "}"}
    IN IF starts = {} THEN <<>>
       ELSE LET i == Min(starts)
                j == Min({e \in (i + 1)..Len(s) : s[e] = "}"})
            IN SubSeq(s, i, j)

\* re.search(r'\{[\s\S]*\}', s): the leftmost "{" a match can start at, and from it
\* the longest match (the star is greedy).  <<>> when nothing matches.
re_search(s) ==
    LET starts == {i \in DOMAIN s : s[i] = "{" /\ \E j \in (i + 1)..Len(s) : s[j] = "}"}
    IN IF starts = {} THEN <<>>
       ELSE LET i == Min(starts)
                j == Max({e \in (i + 1)..Len(s) : s[e] = "}"})
            IN SubSeq(s, i, j)

\* Lines 114-128 with the handler of line 130: the value extract_receipt_data
\* returns for a response text, NoValue standing for None.
ParseResponse(s) ==
    IF json_loads(s).ok THEN json_loads(s).v
    ELSE LET json_match == re_search(s)
         IN IF json_match # <<>> /\ json_loads(json_match).ok
            THEN json_loads(json_match).v
            ELSE NoValue

\* ---------------------------------------------------------------- state of a run

\* The content of an output file.
Absent == [s |-> "absent"]
Old == [s |-> "old"]
Empty == [s |-> "empty"]
Partial == [s |-> "partial"]
Complete(data, image) == [s |-> "complete", data |-> data, of |-> image]

NoResponse == <<"none">>
NoSummary == <<>>

Texts == SeqsUpTo(Alphabet, MaxLen)

\* A record, the same with prose around it, a bare number, the empty object, prose.
SampleTexts == { <<"{","m","}">>, <<"x","{","m","}","x">>, <<"1">>,
                 <<"{","}">>, <<"x">> }

Dirs == {d \in SUBSET NameUniverse : Cardinality(d) <= MaxFiles}

\* (dotenvInstalled, dotenvKey, environ)
AllCreds == BOOLEAN \X {None, "A"} \X {None, "", "B"}

RunInit(creds, dirs, paths, texts) ==
    /\ entry \in {"main", "call"}
    /\ \E c \in creds : /\ dotenvInstalled = c[1]
                        /\ dotenvKey = c[2]
                        /\ environ = c[3]
    /\ images \in dirs
    /\ argv \in (IF entry = "main" THEN {<<>>} ELSE {}) \cup {<<p>> : p \in paths}
    /\ api_key \in (IF entry = "call" THEN {None, "", "C"} ELSE {None})
    /\ out \in [OutNames -> {Absent, Old}]
    /\ replies = texts
    /\ pc = "import"
    /\ image_files = <<>>
    /\ idx = 0
    /\ successful_count = 0
    /\ cur = <<>>
    /\ response_content = NoResponse
    /\ extracted_data = NoValue
    /\ client = None
    /\ netCalls = 0
    /\ summary = NoSummary

KeyIdle == /\ envText = <<>>
           /\ envOrig = <<>>
           /\ lastOp = [op |-> "none", key |-> <<>>]

Init == RunInit(AllCreds, Dirs, {<<"r",".","j","p","g">>}, SampleTexts) /\ KeyIdle

\* ---------------------------------------------------------------- the run

\* Lines 8-14: load_dotenv() with its defaults sets a variable of the file only
\* when the environment does not define it.
load_dotenv ==
    IF dotenvInstalled /\ dotenvKey # None /\ environ = None THEN dotenvKey ELSE environ

Import ==
    /\ pc = "import"
    /\ environ' = load_dotenv
    /\ pc' = IF entry = "main" THEN "main" ELSE "call"
    /\ UNCHANGED <<entry, argv, api_key, dotenvInstalled, dotenvKey, images, out, replies,
                   image_files, idx, successful_count, cur, response_content,
                   extracted_data, client, netCalls, summary, keyVars>>

\* The check of main comparing with None only: an empty value passes.
KeyIsNotNone == environ # None

\* Line 188: the check of main.
KeyIsSet == Truthy(environ)

\* Lines 184-219 up to the processing of the files.
main ==
    /\ pc = "main"
    /\ IF ~KeyIsSet THEN pc' = "done" /\ cur' = cur
       ELSE IF argv # <<>>
            THEN IF argv[1] \in images
                 THEN pc' = "single" /\ cur' = argv[1]
                 ELSE pc' = "done" /\ cur' = cur
            ELSE pc' = "batch" /\ cur' = cur
    /\ UNCHANGED <<entry, argv, api_key, dotenvInstalled, dotenvKey, environ, images, out,
                   replies, image_files, idx, successful_count, response_content,
                   extracted_data, client, netCalls, summary, keyVars>>

\* Line 36: the key the client is constructed with.
ClientKey(override) == IF Truthy(override) THEN override ELSE environ

\* Lines 32-132: what a call of extract_receipt_data can do.  Groq() raises when
\* it is given no key and the environment has none; encode_image raises when the
\* image cannot be read; both are outside the try.  Inside it, the request fails
\* or is answered; a key the service rejects (the empty one) is never answered.
extract_receipt_data(override) ==
    LET k == ClientKey(override)
        outcome(raised, calls, response, data) ==
            [raised |-> raised, client |-> k, calls |-> calls,
             response |-> response, data |-> data]
    IN IF k = None THEN {outcome(TRUE, 0, NoResponse, NoValue)}
       ELSE {outcome(TRUE, 0, NoResponse, NoValue), outcome(FALSE, 1, NoResponse, NoValue)}
            \cup {outcome(FALSE, 1, r, ParseResponse(r)) :
                    r \in (IF k = "" THEN {} ELSE replies)}

\* Lines 144-156.
Discover ==
    /\ pc = "batch"
    /\ \E q \in GlobAll(images, 1) :
         /\ image_files' = q
         /\ IF q = <<>> THEN pc' = "done" /\ idx' = idx
                        ELSE pc' = "loop" /\ idx' = 1
    /\ UNCHANGED <<entry, argv, api_key, dotenvInstalled, dotenvKey, environ, images, out,
                   replies, successful_count, cur, response_content, extracted_data,
                   client, netCalls, summary, keyVars>>

\* Lines 160-165 and 177-178: one file of the loop up to the test of the result.
BatchExtract ==
    /\ pc = "loop"
    /\ idx <= Len(image_files)
    /\ cur' = image_files[idx]
    /\ \E o \in extract_receipt_data(None) :
         /\ client' = o.client
         /\ netCalls' = netCalls + o.calls
         /\ response_content' = o.response
         /\ extracted_data' = o.data
         /\ IF o.raised THEN pc' = "crashed" /\ idx' = idx
            ELSE IF TruthyData(o.data) THEN pc' = "open" /\ idx' = idx
            ELSE pc' = "loop" /\ idx' = idx + 1
    /\ UNCHANGED <<entry, argv, api_key, dotenvInstalled, dotenvKey, environ, images, out,
                   replies, image_files, successful_count, summary, keyVars>>

\* Lines 180-182.
Summary ==
    /\ pc = "loop"
    /\ idx > Len(image_files)
    /\ summary' = <<successful_count, Len(image_files)>>
    /\ pc' = "done"
    /\ UNCHANGED <<entry, argv, api_key, dotenvInstalled, dotenvKey, environ, images, out,
                   replies, image_files, idx, successful_count, cur, response_content,
                   extracted_data, client, netCalls, keyVars>>

\* Lines 203-204 and 213-214.
SingleExtract ==
    /\ pc = "single"
    /\ \E o \in extract_receipt_data(None) :
         /\ client' = o.client
         /\ netCalls' = netCalls + o.calls
         /\ response_content' = o.response
         /\ extracted_data' = o.data
         /\ pc' = IF o.raised THEN "crashed"
                  ELSE IF TruthyData(o.data) THEN "open" ELSE "done"
    /\ UNCHANGED <<entry, argv, api_key, dotenvInstalled, dotenvKey, environ, images, out,
                   replies, image_files, idx, successful_count, cur, summary, keyVars>>

\* extract_receipt_data(image_path, api_key) called by an importing program.
DirectCall ==
    /\ pc = "call"
    /\ cur' = argv[1]
    /\ \E o \in extract_receipt_data(api_key) :
         /\ client' = o.client
         /\ netCalls' = netCalls + o.calls
         /\ response_content' = o.response
         /\ extracted_data' = o.data
         /\ pc' = IF o.raised THEN "crashed" ELSE "done"
    /\ UNCHANGED <<entry, argv, api_key, dotenvInstalled, dotenvKey, environ, images, out,
                   replies, image_files, idx, successful_count, summary, keyVars>>

\* Lines 170 and 210: open(json_filename, 'w') truncates the file.
OpenOutput ==
    /\ pc = "open"
    /\ out' = [out EXCEPT ![get_json_filename(cur)] = Empty]
    /\ pc' = "dump"
    /\ UNCHANGED <<entry, argv, api_key, dotenvInstalled, dotenvKey, environ, images,
                   replies, image_files, idx, successful_count, cur, response_content,
                   extracted_data, client, netCalls, summary, keyVars>>

\* Lines 170 and 210: open raises (the file cannot be written).
OpenError ==
    /\ pc = "open"
    /\ pc' = "crashed"
    /\ UNCHANGED <<entry, argv, api_key, dotenvInstalled, dotenvKey, environ, images, out,
                   replies, image_files, idx, successful_count, cur, response_content,
                   extracted_data, client, netCalls, summary, keyVars>>

\* Lines 171 and 211: json.dump writes the text piece by piece; a part of it
\* reaches the file when the buffer is flushed before the end.
FlushChunk ==
    /\ pc = "dump"
    /\ out[get_json_filename(cur)] = Empty
    /\ out' = [out EXCEPT ![get_json_filename(cur)] = Partial]
    /\ UNCHANGED <<entry, argv, api_key, dotenvInstalled, dotenvKey, environ, images,
                   replies, pc, image_files, idx, successful_count, cur, response_content,
                   extracted_data, client, netCalls, summary, keyVars>>

\* Lines 171 and 211: a write raises (the disk is full).
WriteError ==
    /\ pc = "dump"
    /\ pc' = "crashed"
    /\ UNCHANGED <<entry, argv, api_key, dotenvInstalled, dotenvKey, environ, images, out,
                   replies, image_files, idx, successful_count, cur, response_content,
                   extracted_data, client, netCalls, summary, keyVars>>

\* Lines 171-176 and 211-212: the rest is written, the file is closed and, in the
\* loop, the file is counted.
CloseOutput ==
    /\ pc = "dump"
    /\ out' = [out EXCEPT ![get_json_filename(cur)] = Complete(extracted_data, cur)]
    /\ IF argv = <<>>
       THEN /\ successful_count' = successful_count + 1
            /\ idx' = idx + 1
            /\ pc' = "loop"
       ELSE /\ successful_count' = successful_count
            /\ idx' = idx
            /\ pc' = "done"
    /\ UNCHANGED <<entry, argv, api_key, dotenvInstalled, dotenvKey, environ, images,
                   replies, image_files, cur, response_content, extracted_data, client,
                   netCalls, summary, keyVars>>

\* The process is terminated from outside.
Terminate ==
    /\ pc \notin {"done", "crashed", "killed"}
    /\ pc' = "killed"
    /\ UNCHANGED <<entry, argv, api_key, dotenvInstalled, dotenvKey, environ, images, out,
                   replies, image_files, idx, successful_count, cur, response_content,
                   extracted_data, client, netCalls, summary, keyVars>>

Next ==
    \/ Import
    \/ main
    \/ Discover
    \/ BatchExtract
    \/ Summary
    \/ SingleExtract
    \/ DirectCall
    \/ OpenOutput
    \/ OpenError
    \/ FlushChunk
    \/ WriteError
    \/ CloseOutput
    \/ Terminate

Spec == Init /\ [][Next]_vars

\* A run over every response text up to MaxLen, in a directory of at most one image.
InitRecover ==
    /\ RunInit({<<TRUE, None, None>>, <<TRUE, None, "B">>},
               {{}, {<<"r",".","j","p","g">>}}, {<<"r",".","j","p","g">>}, Texts)
    /\ KeyIdle

SpecRecover == InitRecover /\ [][Next]_vars

\* ---------------------------------------------------------------- manage_api_key

EnvAlphabet == {"K", "a", " ", "\n"}
\* The symbols of a key given to set_api_key.
KeyAlphabet == {"a", "\n"}

\* Path(".env").exists() is false.
NoFile == <<"ENOENT">>

EnvCap == MaxEnvLen + MaxKeyLen + 3

RECURSIVE ReadLines(_)
\* `for line in f`: the lines of a text, each with the line break that ends it.
ReadLines(text) ==
    IF text = <<>> THEN <<>>
    ELSE LET breaks == {i \in DOMAIN text : text[i] = "\n"}
         IN IF breaks = {} THEN <<text>>
            ELSE <<SubSeq(text, 1, Min(breaks))>>
                   \o ReadLines(SubSeq(text, Min(breaks) + 1, Len(text)))

IsSpace(c) == c \in {" ", "\n"}

RECURSIVE rstrip(_)
\* str.rstrip()
rstrip(line) ==
    IF line # <<>> /\ IsSpace(Last(line)) THEN rstrip(SubSeq(line, 1, Len(line) - 1))
    ELSE line

RECURSIVE lstrip(_)
lstrip(line) ==
    IF line # <<>> /\ IsSpace(line[1]) THEN lstrip(Tail(line)) ELSE line

\* str.strip()
strip(line) == lstrip(rstrip(line))

\* line.startswith("GROQ_API_KEY=")
IsKeyLine(line) == line # <<>> /\ line[1] = "K"

RECURSIVE WriteLines(_)
\* f.write(f"{var}\n") for every var of the list.
WriteLines(lines) ==
    IF lines = <<>> THEN <<>> ELSE lines[1] \o <<"\n">> \o WriteLines(Tail(lines))

\* Every line without the white space at its end.
Stripped(lines) == [i \in DOMAIN lines |-> rstrip(lines[i])]

RECURSIVE other_vars(_)
\* Lines 39-44 and 64-71: other_vars of a list of lines, the lines that do not
\* start with the key's name, each without its trailing white space.
other_vars(lines) ==
    IF lines = <<>> THEN <<>>
    ELSE (IF IsKeyLine(lines[1]) THEN <<>> ELSE <<rstrip(lines[1])>>)
           \o other_vars(Tail(lines))

RECURSIVE NonBlank(_)
\* Lines 50 and 77: the vars with var.strip() true.
NonBlank(vars_) ==
    IF vars_ = <<>> THEN <<>>
    ELSE (IF strip(vars_[1]) # <<>> THEN <<vars_[1]>> ELSE <<>>) \o NonBlank(Tail(vars_))

\* set_api_key keeping every line of the file, the old key lines too.
set_api_key_keeping(text, new_key) ==
    <<"K">> \o new_key \o <<"\n">>
      \o WriteLines(NonBlank(IF text = NoFile THEN <<>> ELSE Stripped(ReadLines(text))))

\* Lines 34-53: the content of .env after set_api_key(new_key).
set_api_key(text, new_key) ==
    <<"K">> \o new_key \o <<"\n">>
      \o WriteLines(NonBlank(IF text = NoFile THEN <<>> ELSE other_vars(ReadLines(text))))

\* Lines 55-81: the content of .env after remove_api_key().
remove_api_key(text) ==
    IF text = NoFile THEN NoFile
    ELSE LET found == \E i \in DOMAIN ReadLines(text) : IsKeyLine(ReadLines(text)[i])
         IN IF found THEN WriteLines(NonBlank(other_vars(ReadLines(text)))) ELSE text

RunIdle ==
    /\ entry = "main"
    /\ argv = <<>>
    /\ api_key = None
    /\ dotenvInstalled = TRUE
    /\ dotenvKey = None
    /\ environ = None
    /\ images = {}
    /\ out = [f \in OutNames |-> Absent]
    /\ replies = {}
    /\ pc = "done"
    /\ image_files = <<>>
    /\ idx = 0
    /\ successful_count = 0
    /\ cur = <<>>
    /\ response_content = NoResponse
    /\ extracted_data = NoValue
    /\ client = None
    /\ netCalls = 0
    /\ summary = NoSummary

InitKey ==
    /\ RunIdle
    /\ envText \in SeqsUpTo(EnvAlphabet, MaxEnvLen) \cup {NoFile}
    /\ envOrig = envText
    /\ lastOp = [op |-> "none", key |-> <<>>]

\* python manage_api_key.py set KEY
SetKey ==
    /\ \E k \in SeqsUpTo(KeyAlphabet, MaxKeyLen) :
         /\ Len(set_api_key(envText, k)) <= EnvCap
         /\ envText' = set_api_key(envText, k)
         /\ lastOp' = [op |-> "set", key |-> k]
    /\ UNCHANGED <<envOrig, runVars>>

\* python manage_api_key.py remove
RemoveKey ==
    /\ envText' = remove_api_key(envText)
    /\ lastOp' = [op |-> "remove", key |-> <<>>]
    /\ UNCHANGED <<envOrig, runVars>>

NextKey ==
    \/ SetKey
    \/ RemoveKey

SpecKey == InitKey /\ [][NextKey]_vars

\* ================================================================ claims

BatchRun == entry = "main" /\ argv = <<>>
Written == {f \in OutNames : out[f].s \notin {"absent", "old"}}
Discovered == {image_files[i] : i \in DOMAIN image_files}

\* C1 (as claimed): in batch mode every failure of a file's pipeline is caught
\* and counted for that file only, so a batch that found files ends with every
\* file attempted and the summary line printed.
C1_BatchAlwaysCompletes ==
    (BatchRun /\ image_files # <<>> /\ pc \in {"done", "crashed"})
        => /\ pc = "done"
           /\ idx = Len(image_files) + 1
           /\ summary = <<successful_count, Len(image_files)>>

\* No source holds a usable credential: neither the .env entry nor the environment.
NoCredential == ~Truthy(dotenvKey) /\ ~Truthy(environ)

\* C2: with no credential resolvable, a run of main sends no request, writes no
\* output file and ends at the credential check: no image is enumerated, read or
\* processed and no client is constructed.
C2_NoCredentialNoWork ==
    (entry = "main" /\ NoCredential)
        => /\ netCalls = 0
           /\ client = None
           /\ Written = {}
           /\ image_files = <<>>
           /\ cur = <<>>
           /\ pc \in {"import", "main", "done", "killed"}

\* A batch run and a single-file run that ended at the credential check with
\* images waiting in the directory.
C2_Witness ==
    /\ entry = "main"
    /\ NoCredential
    /\ pc = "done"
    /\ <<"r",".","j","p","g">> \in images

\* The credential the claimed priority order resolves: the override, else the
\* entry of .env, else the environment variable.
ClaimedCredential ==
    IF Truthy(api_key) THEN api_key
    ELSE IF dotenvKey # None THEN dotenvKey
    ELSE environ

\* C3 (as claimed): the client is constructed with the credential of the
\* priority order override, .env entry, environment variable.  The claim is given
\* the cases in its favour: .env is loaded (python-dotenv is installed) and the
\* environment does not define the variable as the empty string.
C3_CredentialPriority ==
    (dotenvInstalled /\ environ # "" /\ client # None) => client = ClaimedCredential

\* The allow-list of the claim: jpg, jpeg, png, gif, bmp.
AllowList == {image_extensions[i] : i \in DOMAIN image_extensions}

\* The discovery of a batch run is over.
DiscoveryDone ==
    /\ BatchRun
    /\ \/ pc \in {"loop", "open", "dump", "crashed"}
       \/ pc = "done" /\ KeyIsSet

\* C5 (as claimed): a file of the directory is discovered if and only if its
\* extension, lower-cased, is in the allow-list.
C5_CaseInsensitiveDiscovery ==
    DiscoveryDone
        => \A f \in images : f \in Discovered <=> Lower(SplitextExt(f)) \in AllowList

\* C6 (as claimed): after a completed batch the number of output files written
\* equals the success count of the summary, and the total of the summary is the
\* number of image files discovered.
C6_OneRecordPerImage ==
    (BatchRun /\ summary # NoSummary)
        => /\ Cardinality(Written) = summary[1]
           /\ summary[2] = Cardinality(Discovered)

\* C7 (as claimed): every output file written holds a JSON object.
C7_OnlyObjectsPersisted ==
    \A f \in OutNames : out[f].s = "complete" => out[f].data.t = "obj"

\* C8 (as claimed): whenever the recovery of a response gave a JSON object,
\* whatever members it has, the run goes on to write it, and once the file is
\* dealt with the output file holds that object.
C8_PartialRecordsPersisted ==
    (entry = "main" /\ response_content # NoResponse /\ extracted_data.t = "obj"
       /\ pc \in {"loop", "done"})
        => out[get_json_filename(cur)] = Complete(extracted_data, cur)

\* C9 (as claimed): when the process is terminated from outside, every output
\* file is untouched or holds a complete record.
C9_NoPartialOutput ==
    pc = "killed" => \A f \in OutNames : out[f].s \in {"absent", "old", "complete"}

\* The recovery the claim describes: the value of the whole text when it parses;
\* otherwise the value of the span from the first "{" to the last "}" when there
\* is such a span and it parses; otherwise a failure.
ClaimedRecovery(s) ==
    LET opens == {i \in DOMAIN s : s[i] = "{"}
        closes == {i \in DOMAIN s : s[i] = "}"}
    IN IF json_loads(s).ok THEN json_loads(s).v
       ELSE IF opens # {} /\ closes # {} /\ Min(opens) < Max(closes)
                 /\ json_loads(SubSeq(s, Min(opens), Max(closes))).ok
            THEN json_loads(SubSeq(s, Min(opens), Max(closes))).v
            ELSE NoValue

\* A step in which extract_receipt_data ran to its end.
ExtractStep ==
    /\ \/ pc \in {"single", "call"}
       \/ pc = "loop" /\ idx <= Len(image_files)
    /\ pc' # "killed"

\* C4: a call that got a response text returns the value of the two-stage
\* recovery; when the recovery fails, the file is counted as failed (the loop
\* moves on without counting it) and no output file is opened or written.
C4_TwoStageRecovery ==
    [][(ExtractStep /\ response_content' # NoResponse)
         => /\ extracted_data' = ClaimedRecovery(response_content')
            /\ ClaimedRecovery(response_content') = NoValue
                 => /\ out' = out
                    /\ successful_count' = successful_count
                    /\ pc' \in {"loop", "done"}
                    /\ pc = "loop" => idx' = idx + 1]_vars

\* In a batch, a record was recovered by the second stage from a text with prose
\* before the object, and its file is being written.
C4_Witness ==
    /\ BatchRun
    /\ pc = "dump"
    /\ response_content = <<"x", "{", "m", "}">>
    /\ extracted_data = Obj

\* ---- C10

FileLines(text) == IF text = NoFile THEN <<>> ELSE ReadLines(text)

\* A line without the line break that ends it.
Content(line) ==
    IF line # <<>> /\ Last(line) = "\n" THEN SubSeq(line, 1, Len(line) - 1) ELSE line

KeyLineCount(text) ==
    Cardinality({i \in DOMAIN FileLines(text) : IsKeyLine(FileLines(text)[i])})

RECURSIVE OtherLines(_)
\* Of a list of lines, those that are not blank and do not begin with the key's name.
OtherLines(lines) ==
    IF lines = <<>> THEN <<>>
    ELSE (IF ~IsKeyLine(lines[1]) /\ strip(lines[1]) # <<>> THEN <<Content(lines[1])>> ELSE <<>>)
           \o OtherLines(Tail(lines))

Contents(lines) == [i \in DOMAIN lines |-> Content(lines[i])]

RECURSIVE IsSubseq(_, _)
\* The elements of a occur in b in the order of a.
IsSubseq(a, b) ==
    IF a = <<>> THEN TRUE
    ELSE IF b = <<>> THEN FALSE
    ELSE IF a[1] = b[1] THEN IsSubseq(Tail(a), Tail(b))
    ELSE IsSubseq(a, Tail(b))

SingleLine(k) == \A i \in DOMAIN k : k[i] # "\n"

\* C10 (as claimed): after any commands the file has at most one key line; after
\* set_api_key(k) exactly one, the first line, with the value k; after
\* remove_api_key none; and every other non-blank line of the original file is
\* still there, in the original order.
C10_AsClaimed ==
    lastOp.op # "none"
        => /\ KeyLineCount(envText) <= 1
           /\ lastOp.op = "set"
                => /\ KeyLineCount(envText) = 1
                   /\ Content(FileLines(envText)[1]) = <<"K">> \o lastOp.key
           /\ lastOp.op = "remove" => KeyLineCount(envText) = 0
           /\ IsSubseq(OtherLines(FileLines(envOrig)), Contents(FileLines(envText)))

\* C10 (amended): after remove_api_key the file has no key line; after
\* set_api_key(k) with a k that holds no line break it has exactly one, the first
\* line, with the value k; and after any commands every other non-blank line of
\* the original file is still there in the original order, up to the white space
\* at its end, which a rewrite of the file strips.
C10_KeyFile ==
    lastOp.op # "none"
        => /\ (lastOp.op = "set" /\ SingleLine(lastOp.key))
                => /\ KeyLineCount(envText) = 1
                   /\ Content(FileLines(envText)[1]) = <<"K">> \o lastOp.key
           /\ lastOp.op = "remove" => KeyLineCount(envText) = 0
           /\ IsSubseq(Stripped(OtherLines(FileLines(envOrig))),
                       Stripped(Contents(FileLines(envText))))

\* A key was set in a file that held a key line and another line with a blank at
\* its end, and the file was rewritten.
C10_Witness ==
    /\ lastOp.op = "set"
    /\ lastOp.key = <<"a", "a">>
    /\ envOrig = <<"K", "\n", "a", " ">>
    /\ envText = <<"K", "a", "a", "\n", "a", "\n">>

====
